---- MODULE Spec2Model ----
(***************************************************************************)
(* A model of calendar_automation.py (MIET schedule parser): the class     *)
(* entry, the merge of consecutive periods, the inference of the semester  *)
(* start, the placement of an entry in time, the title canonicalisation    *)
(* and the control flow of main().                                         *)
(*                                                                         *)
(* Strings are sequences of Unicode code points, so that Python's string   *)
(* comparison, slicing, find, split and replace are computed on them.      *)
(* Dates are proleptic Gregorian ordinals (datetime.toordinal), times are  *)
(* minutes since the midnight that starts ordinal 0.                       *)
(***************************************************************************)
EXTENDS Integers, Sequences, FiniteSets, TLC

VARIABLES
    pc,             \* position of the running function
    class_list,     \* merge_list_of_classes: the list being sorted and merged
    i,              \* merge_list_of_classes: loop index
    list_len,       \* merge_list_of_classes: tracked length
    merge_input,    \* history: the list as it was passed to merge_list_of_classes
    absorbed,       \* history: per entry of class_list, how many entries were deleted into it
    config,         \* the configuration dictionary
    schedule,       \* create_ics_file: the list of entries to place
    start_date,     \* create_ics_file: the parsed semester start (ordinal), or None
    first_day_of_semester,  \* create_ics_file: weekday of start_date, or None
    cal,            \* create_ics_file: the events added to the calendar so far
    ics_file,       \* the calendar file: whether it is written, and its events
    semester,       \* calculate_semester_start: data["Semestr"] of the feed
    name,           \* get_class_name: the raw title
    long_name,      \* get_class_name: the title without its bracketed tag
    class_type,     \* get_class_name: the bracketed tag
    res_name,       \* get_class_name: the result
    args,           \* main: the parsed command line
    feed,           \* the schedule server: per group, its "Data" records
    unmerged,       \* main / create_list_of_classes_*: the entries collected
    fetched,        \* create_list_of_classes_for_educator: groups fetched and scanned
    calls,          \* history: the steps of main() that have run, in order
    exit_status     \* Running, then the status the process ended with

mergeVars == <<class_list, i, list_len, merge_input, absorbed>>
icsVars == <<schedule, start_date, first_day_of_semester, cal, ics_file>>
semVars == <<semester>>
nameVars == <<name, long_name, class_type, res_name>>
mainVars == <<args, feed, unmerged, fetched, calls, exit_status>>

vars == <<pc, mergeVars, config, icsVars, semVars, nameVars, mainVars>>

None == "None"

\* None in a slot that otherwise holds a string (a sequence of code points)
NoneStr == <<-1>>

\* the calendar file before it is written
NoFile == [written |-> FALSE, events |-> <<>>]

\* exit_status while the process runs
Running == -1

----------------------------------------------------------------------------
(* Bounds of the model *)

MaxLen == 3
MaxSlot == 2
MaxDuration == 2
MinYear == 2018
MaxYear == 2031
MaxTitle == 4
MaxKey == 2
MaxFeed == 2

----------------------------------------------------------------------------
(* Generic helpers *)

Min(a, b) == IF a < b THEN a ELSE b

Abs(x) == IF x < 0 THEN -x ELSE x

Range(s) == {s[k] : k \in 1..Len(s)}

SeqsUpTo(S, n) == UNION {[1..m -> S] : m \in 0..n}

RemoveAt(s, k) == [j \in 1..(Len(s) - 1) |-> IF j < k THEN s[j] ELSE s[j + 1]]

RECURSIVE SumDuration(_)
SumDuration(s) == IF s = <<>> THEN 0 ELSE s[1].duration + SumDuration(Tail(s))

\* Python's str < str: lexicographic on code points, a proper prefix is smaller
StrLess(a, b) ==
    \E k \in 1..(Min(Len(a), Len(b)) + 1) :
        /\ \A j \in 1..(k - 1) : a[j] = b[j]
        /\ \/ (k > Len(a) /\ k <= Len(b))
           \/ (k <= Len(a) /\ k <= Len(b) /\ a[k] < b[k])

----------------------------------------------------------------------------
(* ScheduleEntry *)

\* ScheduleEntry.__init__: duration starts at 1
ScheduleEntry(class_name, week_code, room_number, week_day, slot_number, teacher) ==
    [class_name |-> class_name, week_code |-> week_code, room_number |-> room_number,
     week_day |-> week_day, slot_number |-> slot_number, duration |-> 1,
     teacher |-> teacher]

\* ScheduleEntry.__eq__: equality of the identity key
EntryEq(self, other) ==
    /\ self.week_code = other.week_code
    /\ self.week_day = other.week_day
    /\ self.slot_number = other.slot_number
    /\ self.room_number = other.room_number
    /\ self.class_name = other.class_name

\* ScheduleEntry.__lt__: tuple comparison of the identity key
EntryLt(self, other) ==
    \/ self.week_code < other.week_code
    \/ /\ self.week_code = other.week_code
       /\ \/ self.week_day < other.week_day
          \/ /\ self.week_day = other.week_day
             /\ \/ self.slot_number < other.slot_number
                \/ /\ self.slot_number = other.slot_number
                   /\ \/ StrLess(self.room_number, other.room_number)
                      \/ /\ self.room_number = other.room_number
                         /\ StrLess(self.class_name, other.class_name)

\* a plausible slip: the teacher is left out of the adjacency test
is_aligned_class_no_teacher(self, other) ==
    /\ self.class_name = other.class_name
    /\ self.week_code = other.week_code
    /\ self.week_day = other.week_day
    /\ self.room_number = other.room_number
    /\ Abs(self.slot_number - other.slot_number) = 1

\* ScheduleEntry.is_aligned_class
is_aligned_class(self, other) ==
    /\ self.class_name = other.class_name
    /\ self.week_code = other.week_code
    /\ self.week_day = other.week_day
    /\ self.room_number = other.room_number
    /\ self.teacher = other.teacher
    /\ Abs(self.slot_number - other.slot_number) = 1

----------------------------------------------------------------------------
(* merge_list_of_classes *)

\* list.sort(): stable, uses __lt__ only
RECURSIVE SortInsert(_, _)
SortInsert(sorted, x) ==
    IF sorted = <<>> THEN <<x>>
    ELSE IF EntryLt(x, sorted[1]) THEN <<x>> \o sorted
    ELSE <<sorted[1]>> \o SortInsert(Tail(sorted), x)

RECURSIVE SortList(_)
SortList(list) ==
    IF list = <<>> THEN <<>>
    ELSE SortInsert(SortList(SubSeq(list, 1, Len(list) - 1)), list[Len(list)])

\* a plausible slip: the left entry is deleted instead of the right one
MergeAbsorbWrongIndex(list, k) ==
    RemoveAt([list EXCEPT ![k].duration = @ + 1], k)

\* class_list[i].duration += 1; del class_list[i + 1]   (k is i + 1, 1-based)
MergeAbsorb(list, k) ==
    RemoveAt([list EXCEPT ![k].duration = @ + 1], k + 1)

\* one iteration of the while loop on the state (list, i, list_len); i is 0-based
MergeIterate(st) ==
    IF is_aligned_class(st.list[st.i + 1], st.list[st.i + 2])
    THEN [list |-> MergeAbsorb(st.list, st.i + 1), i |-> (st.i - 1) + 1,
          list_len |-> st.list_len - 1]
    ELSE [st EXCEPT !.i = @ + 1]

\* the whole function, as main() calls it
RECURSIVE MergeLoop(_)
MergeLoop(st) ==
    IF st.i < st.list_len - 1 THEN MergeLoop(MergeIterate(st)) ELSE st.list

merge_list_of_classes(list) ==
    MergeLoop([list |-> SortList(list), i |-> 0, list_len |-> Len(list)])

----------------------------------------------------------------------------
(* get_class_name *)

\* 1-based position of the first occurrence of sub in str at or after from; 0 when none
FindSub(str, sub, from) ==
    LET hits == {k \in from..(Len(str) - Len(sub) + 1) :
                    SubSeq(str, k, k + Len(sub) - 1) = sub}
    IN IF hits = {} THEN 0 ELSE CHOOSE k \in hits : \A j \in hits : k <= j

\* sub in str
Contains(sub, str) == FindSub(str, sub, 1) # 0

\* str.split(sep)[1], for a str that contains sep
SplitSecond(str, sep) ==
    LET after == FindSub(str, sep, 1) + Len(sep)
        next == FindSub(str, sep, after)
    IN SubSeq(str, after, IF next = 0 THEN Len(str) ELSE next - 1)

\* str.replace(old, ""), old not empty
RECURSIVE RemoveAll(_, _)
RemoveAll(str, old) ==
    LET p == FindSub(str, old, 1)
    IN IF p = 0 THEN str
       ELSE SubSeq(str, 1, p - 1) \o RemoveAll(SubSeq(str, p + Len(old), Len(str)), old)

\* sorted(keys, key=len, reverse=True): stable, the longest first
RECURSIVE InsertByLen(_, _)
InsertByLen(sorted, key) ==
    IF sorted = <<>> THEN <<key>>
    ELSE IF Len(key) > Len(sorted[1]) THEN <<key>> \o sorted
    ELSE <<sorted[1]>> \o InsertByLen(Tail(sorted), key)

RECURSIVE SortedByLen(_)
SortedByLen(keys) ==
    IF keys = <<>> THEN <<>>
    ELSE InsertByLen(SortedByLen(SubSeq(keys, 1, Len(keys) - 1)), keys[Len(keys)])

\* the keys of a dict, in insertion order
Keys(cast) == [k \in 1..Len(cast) |-> cast[k][1]]

\* cast[key]
Lookup(cast, key) == cast[CHOOSE k \in 1..Len(cast) : cast[k][1] = key][2]

\* lines 184-187: the alias of the first key that occurs, "" when none does
RECURSIVE FirstAlias(_, _, _)
FirstAlias(keys, cast, title) ==
    IF keys = <<>> THEN <<>>
    ELSE IF Contains(keys[1], title) THEN Lookup(cast, keys[1])
    ELSE FirstAlias(Tail(keys), cast, title)

\* lines 174-191; the locals are returned with the result
get_class_name(title, cast) ==
    LET ctype == IF Contains(<<32, 91>>, title)
                 THEN <<32, 91>> \o SplitSecond(title, <<32, 91>>)
                 ELSE <<>>
        long == IF Contains(<<32, 91>>, title) THEN RemoveAll(title, ctype) ELSE title
        found == FirstAlias(SortedByLen(Keys(cast)), cast, long)
        base == IF found = <<>> THEN long ELSE found
    IN [long_name |-> long, class_type |-> ctype, res_name |-> base \o ctype]

----------------------------------------------------------------------------
(* DEFAULT_CONFIG; strings as code points *)

Educator0 == <<1057, 1086, 1083, 1086, 1076, 1086, 1074, 1085, 1080, 1082, 1086,
               1074, 32, 1040, 1085, 1076, 1088, 1077, 1081, 32, 1055, 1072, 1074,
               1083, 1086, 1074, 1080, 1095>>   \* "Solodovnikov Andrei Pavlovich" in Cyrillic
Group24M == <<1048, 1042, 1058, 45, 50, 52, 1052>>     \* "IVT-24M" in Cyrillic
Group34 == <<1048, 1042, 1058, 45, 51, 52>>            \* "IVT-34" in Cyrillic
Group14M == <<1048, 1042, 1058, 45, 49, 52, 1052>>     \* "IVT-14M" in Cyrillic
LongMPSiS1 == <<1052, 1080, 1082, 1088, 1086, 1087, 1088, 1086, 1094, 1077, 1089,
                1089, 1086, 1088, 1085, 1099, 1077, 32, 1089, 1088, 1077, 1076, 1089,
                1090, 1074, 1072, 32, 1080, 32, 1089, 1080, 1089, 1090, 1077, 1084,
                1099>>
LongMPSiS2 == <<1052, 1080, 1082, 1088, 1086, 1087, 1088, 1086, 1094, 1077, 1089,
                1089, 1086, 1088, 1085, 1099, 1077, 32, 1089, 1080, 1089, 1090, 1077,
                1084, 1099, 32, 1080, 32, 1089, 1088, 1077, 1076, 1089, 1090, 1074,
                1072>>
LongFV == <<1060, 1091, 1085, 1082, 1094, 1080, 1086, 1085, 1072, 1083, 1100, 1085,
            1072, 1103, 32, 1074, 1077, 1088, 1080, 1092, 1080, 1082, 1072, 1094,
            1080, 1103>>
LongUVM == <<91, 1044, 1042, 93, 32, 1059, 1085, 1080, 1074, 1077, 1088, 1089, 1072,
             1083, 1100, 1085, 1072, 1103, 32, 1084, 1077, 1090, 1086, 1076, 1086,
             1083, 1086, 1075, 1080, 1103, 32, 1074, 1077, 1088, 1080, 1092, 1080,
             1082, 1072, 1094, 1080, 1080, 32, 40, 85, 86, 77, 41>>
ShortMPSiS == <<1052, 1055, 1057, 1080, 1057>>
ShortFV == <<70, 86>>                                   \* "FV"
ShortUVM == <<85, 86, 77>>                              \* "UVM"
Practice == <<1055, 1088, 1072, 1082, 1090, 1080, 1095, 1077, 1089, 1082, 1072, 1103,
              32, 1087, 1086, 1076, 1075, 1086, 1090, 1086, 1074, 1082, 1072>>
Date05022026 == <<48, 53, 45, 48, 50, 45, 50, 48, 50, 54>>   \* "05-02-2026"

\* a dict is the sequence of its (key, value) pairs in insertion order
DEFAULT_CONFIG ==
    [mode |-> "educator",
     educator |-> Educator0,
     groups |-> <<Group24M, Group34>>,
     group |-> Group14M,
     academic_hour_duration |-> 40,
     short_recreation_duration |-> 10,
     long_recreation_duration |-> 40,
     semester_starts_at |-> Date05022026,
     class_names_cast |-> << <<LongMPSiS1, ShortMPSiS>>, <<LongMPSiS2, ShortMPSiS>>,
                             <<LongFV, ShortFV>>, <<LongUVM, ShortUVM>> >>,
     repeat_number |-> 5,
     alarm_is_on |-> TRUE,
     alarm_minutes_before |-> 15,
     excluded_disciplines |-> {Practice},
     teacher_in_description |-> TRUE,
     class_prefix |-> <<>>,
     class_suffix |-> <<>>]

----------------------------------------------------------------------------
(* datetime: dates as proleptic Gregorian ordinals *)

IsLeap(y) == (y % 4 = 0) /\ ((y % 100 # 0) \/ (y % 400 = 0))

DaysInMonth(y, m) ==
    CASE m \in {1, 3, 5, 7, 8, 10, 12} -> 31
      [] m \in {4, 6, 9, 11} -> 30
      [] OTHER -> IF IsLeap(y) THEN 29 ELSE 28

DaysBeforeYear(y) ==
    LET p == y - 1 IN p * 365 + (p \div 4) - (p \div 100) + (p \div 400)

RECURSIVE DaysBeforeMonth(_, _)
DaysBeforeMonth(y, m) ==
    IF m = 1 THEN 0 ELSE DaysBeforeMonth(y, m - 1) + DaysInMonth(y, m - 1)

\* datetime(y, m, d)
ToOrdinal(y, m, d) == DaysBeforeYear(y) + DaysBeforeMonth(y, m) + d

\* the (year, month, day) of an ordinal
FromOrdinal(o) ==
    LET y == CHOOSE yy \in ((o \div 366) - 1)..((o \div 365) + 1) :
                 yy >= 1 /\ DaysBeforeYear(yy) < o /\ o <= DaysBeforeYear(yy + 1)
        m == CHOOSE mm \in 1..12 :
                 /\ DaysBeforeMonth(y, mm) < o - DaysBeforeYear(y)
                 /\ o - DaysBeforeYear(y) <= DaysBeforeMonth(y, mm) + DaysInMonth(y, mm)
    IN [year |-> y, month |-> m, day |-> o - DaysBeforeYear(y) - DaysBeforeMonth(y, m)]

\* datetime.weekday(): 0 is Monday
Weekday(o) == (o + 6) % 7

\* n as `width` decimal digits, zero padded
RECURSIVE Digits(_, _)
Digits(n, width) ==
    IF width = 0 THEN <<>> ELSE Digits(n \div 10, width - 1) \o <<48 + (n % 10)>>

\* int(str) of a string of decimal digits
RECURSIVE ParseInt(_)
ParseInt(str) ==
    IF str = <<>> THEN 0
    ELSE ParseInt(SubSeq(str, 1, Len(str) - 1)) * 10 + (str[Len(str)] - 48)

\* d.strftime("%d-%m-%Y")
Strftime(o) ==
    LET d == FromOrdinal(o)
    IN Digits(d.day, 2) \o <<45>> \o Digits(d.month, 2) \o <<45>> \o Digits(d.year, 4)

\* str.find(ch): 0-based position of the first occurrence, -1 when there is none
FindChar(str, ch) ==
    IF \E k \in 1..Len(str) : str[k] = ch
    THEN (CHOOSE k \in 1..Len(str) : str[k] = ch /\ \A j \in 1..(k - 1) : str[j] # ch) - 1
    ELSE -1

\* str[a:b] for 0 <= a
Slice(str, a, b) == SubSeq(str, a + 1, Min(b, Len(str)))

\* datetime.strptime(str, "%d-%m-%Y"): the fields between the two dashes
Strptime(str) ==
    LET p1 == FindChar(str, 45)
        rest == Slice(str, p1 + 1, Len(str))
        p2 == FindChar(rest, 45)
    IN ToOrdinal(ParseInt(Slice(rest, p2 + 1, Len(rest))),
                 ParseInt(Slice(rest, 0, p2)),
                 ParseInt(Slice(str, 0, p1)))

----------------------------------------------------------------------------
(* calculate_semester_start, from data["Semestr"] on *)

Autumn == <<1054, 1089, 1077, 1085, 1085, 1080, 1081>>        \* "Osennii" in Cyrillic
Spring == <<1042, 1077, 1089, 1077, 1085, 1085, 1080, 1081>>  \* "Vesennii" in Cyrillic
Summer == <<1051, 1077, 1090, 1085, 1080, 1081>>              \* "Letnii" in Cyrillic
SemesterWord == <<32, 1089, 1077, 1084, 1077, 1089, 1090, 1088, 32>>  \* " semestr " in Cyrillic

\* str.startswith
StartsWith(str, prefix) ==
    Len(prefix) <= Len(str) /\ SubSeq(str, 1, Len(prefix)) = prefix

\* while d.weekday() != 0: d += timedelta(days=1)
RECURSIVE AdvanceToMonday(_)
AdvanceToMonday(d) == IF Weekday(d) # 0 THEN AdvanceToMonday(d + 1) ELSE d

\* a plausible slip: only a Sunday is moved to the Monday (weekday() >= 6)
calculate_semester_start_sunday_only(sem) ==
    LET year_pos == FindChar(sem, 47)
    IN IF StartsWith(sem, Autumn)
       THEN LET yp == year_pos - 4
                d == ToOrdinal(ParseInt(Slice(sem, yp, yp + 4)), 9, 1)
            IN Strftime(IF Weekday(d) >= 6 THEN d + (7 - Weekday(d)) ELSE d)
       ELSE LET yp == year_pos + 1
                d == ToOrdinal(ParseInt(Slice(sem, yp, yp + 4)), 2, 1)
            IN Strftime(AdvanceToMonday(d) + 7)

\* lines 333-349
calculate_semester_start(sem) ==
    LET year_pos == FindChar(sem, 47)
    IN IF StartsWith(sem, Autumn)
       THEN LET yp == year_pos - 4
                d == ToOrdinal(ParseInt(Slice(sem, yp, yp + 4)), 9, 1)
            IN Strftime(IF Weekday(d) >= 5 THEN d + (7 - Weekday(d)) ELSE d)
       ELSE LET yp == year_pos + 1
                d == ToOrdinal(ParseInt(Slice(sem, yp, yp + 4)), 2, 1)
            IN Strftime(AdvanceToMonday(d) + 7)

----------------------------------------------------------------------------
(* create_ics_file; datetimes are minutes since the start of ordinal 0 *)

MinutesPerDay == 24 * 60

\* lines 380-383
ClassDuration(entry, cfg) ==
    entry.duration * (cfg.academic_hour_duration * 2)
        + (entry.duration - 1) * cfg.short_recreation_duration

\* a plausible slip: the rollover of lines 386-391 is missing
FirstClassDateNoRollover(entry, start, first_day) ==
    start + (entry.week_code * 7 + (entry.week_day - first_day))

\* a plausible slip: the rollover moves the entry by one week, not by four
FirstClassDateOneWeek(entry, start, first_day) ==
    IF (entry.week_day < first_day) /\ (entry.week_code = 0)
    THEN start + ((entry.week_code + 1) * 7 + (entry.week_day - first_day))
    ELSE start + (entry.week_code * 7 + (entry.week_day - first_day))

\* lines 386-397
FirstClassDate(entry, start, first_day) ==
    IF (entry.week_day < first_day) /\ (entry.week_code = 0)
    THEN start + ((entry.week_code + 4) * 7 + (entry.week_day - first_day))
    ELSE start + (entry.week_code * 7 + (entry.week_day - first_day))

\* lines 402-411
StartTime(entry, cfg, first_class_date) ==
    LET pair_duration == cfg.academic_hour_duration * 2
        at_slot == first_class_date * MinutesPerDay + 9 * 60
                       + entry.slot_number * (pair_duration + 10)
    IN IF entry.slot_number >= 2
       THEN at_slot + (cfg.long_recreation_duration - cfg.short_recreation_duration)
       ELSE at_slot

\* lines 378-447: the event of one entry
IcsEvent(entry, cfg, start, first_day) ==
    LET first_class_date == FirstClassDate(entry, start, first_day)
        start_time == StartTime(entry, cfg, first_class_date)
    IN [summary |-> cfg.class_prefix \o entry.class_name \o cfg.class_suffix,
        dtstart |-> start_time,
        dtend |-> start_time + ClassDuration(entry, cfg),
        location |-> entry.room_number,
        description |-> IF cfg.teacher_in_description THEN entry.teacher ELSE NoneStr,
        rrule |-> [freq |-> "weekly", interval |-> 4, count |-> cfg.repeat_number],
        alarm |-> [action |-> IF cfg.alarm_is_on THEN "DISPLAY" ELSE "NONE",
                   trigger |-> -cfg.alarm_minutes_before],
        first_class_date |-> first_class_date]

\* the whole function, as main() calls it: the events written to the file
create_ics_file(sched, cfg) ==
    LET start == Strptime(cfg.semester_starts_at)
    IN [k \in 1..Len(sched) |-> IcsEvent(sched[k], cfg, start, Weekday(start))]

----------------------------------------------------------------------------
(* Inputs of the merge: entries that differ from a base entry in at most    *)
(* one field, at every slot                                                 *)

NameA == <<65>>          \* "A"
NameB == <<66>>          \* "B"
Room1 == <<49>>          \* "1"
Room2 == <<50>>          \* "2"
Teacher1 == <<84>>       \* "T"
Teacher2 == <<85>>       \* "U"

MergeEntries ==
    UNION {{ScheduleEntry(NameA, 0, Room1, 0, s, Teacher1),
            ScheduleEntry(NameB, 0, Room1, 0, s, Teacher1),
            ScheduleEntry(NameA, 1, Room1, 0, s, Teacher1),
            ScheduleEntry(NameA, 0, Room2, 0, s, Teacher1),
            ScheduleEntry(NameA, 0, Room1, 1, s, Teacher1),
            ScheduleEntry(NameA, 0, Room1, 0, s, Teacher2)} : s \in 0..MaxSlot}

MergeIdle ==
    /\ class_list = <<>>
    /\ i = 0
    /\ list_len = 0
    /\ merge_input = <<>>
    /\ absorbed = <<>>

IcsIdle ==
    /\ schedule = <<>>
    /\ start_date = None
    /\ first_day_of_semester = None
    /\ cal = <<>>
    /\ ics_file = NoFile

SemIdle == semester = None

NameIdle ==
    /\ name = None
    /\ long_name = None
    /\ class_type = None
    /\ res_name = None

MainIdle ==
    /\ args = None
    /\ feed = None
    /\ unmerged = <<>>
    /\ fetched = 0
    /\ calls = <<>>
    /\ exit_status = Running

MergeInit ==
    /\ pc = "merge_call"
    /\ config = DEFAULT_CONFIG
    /\ IcsIdle
    /\ SemIdle
    /\ NameIdle
    /\ MainIdle
    /\ class_list \in SeqsUpTo(MergeEntries, MaxLen)
    /\ i = 0
    /\ list_len = 0
    /\ merge_input = class_list
    /\ absorbed = [k \in 1..Len(class_list) |-> 0]

\* lines 298-300
MergeSort ==
    /\ pc = "merge_call"
    /\ class_list' = SortList(class_list)
    /\ i' = 0
    /\ list_len' = Len(class_list)
    /\ pc' = "merge_loop"
    /\ UNCHANGED <<merge_input, absorbed, config, icsVars, semVars, nameVars, mainVars>>

\* lines 301-307, the branch that merges
MergeStepAligned ==
    /\ pc = "merge_loop"
    /\ i < list_len - 1
    /\ is_aligned_class(class_list[i + 1], class_list[i + 2])
    /\ LET st == MergeIterate([list |-> class_list, i |-> i, list_len |-> list_len])
       IN /\ class_list' = st.list
          /\ i' = st.i
          /\ list_len' = st.list_len
    /\ absorbed' = RemoveAt([absorbed EXCEPT ![i + 1] = @ + 1], i + 2)
    /\ UNCHANGED <<pc, merge_input, config, icsVars, semVars, nameVars, mainVars>>

\* lines 301-307, the branch that moves on
MergeStepAdvance ==
    /\ pc = "merge_loop"
    /\ i < list_len - 1
    /\ ~is_aligned_class(class_list[i + 1], class_list[i + 2])
    /\ LET st == MergeIterate([list |-> class_list, i |-> i, list_len |-> list_len])
       IN /\ class_list' = st.list
          /\ i' = st.i
          /\ list_len' = st.list_len
    /\ UNCHANGED <<pc, merge_input, absorbed, config, icsVars, semVars, nameVars, mainVars>>

\* line 308
MergeReturn ==
    /\ pc = "merge_loop"
    /\ ~(i < list_len - 1)
    /\ pc' = "merge_done"
    /\ UNCHANGED <<mergeVars, config, icsVars, semVars, nameVars, mainVars>>

MergeNext == MergeSort \/ MergeStepAligned \/ MergeStepAdvance \/ MergeReturn

SpecMerge == MergeInit /\ [][MergeNext]_vars

----------------------------------------------------------------------------
(* Claims about merge_list_of_classes *)

SameRunFields(a, b) ==
    /\ a.class_name = b.class_name
    /\ a.week_code = b.week_code
    /\ a.week_day = b.week_day
    /\ a.room_number = b.room_number
    /\ a.teacher = b.teacher

\* the input positions holding an entry of e's run fields at slot t
InputAt(e, t) ==
    {k \in 1..Len(merge_input) :
        SameRunFields(merge_input[k], e) /\ merge_input[k].slot_number = t}

\* the input holds a run of n entries like e at slots s .. s+n-1: one entry per
\* slot, and the run is not part of a longer one
IsInputRun(e, s, n) ==
    /\ \A t \in s..(s + n - 1) : Cardinality(InputAt(e, t)) = 1
    /\ InputAt(e, s - 1) = {}
    /\ InputAt(e, s + n) = {}

\* the output positions holding an entry of e's run fields at a slot of the run
OutputOfRun(e, s, n) ==
    {k \in 1..Len(class_list) :
        /\ SameRunFields(class_list[k], e)
        /\ class_list[k].slot_number \in s..(s + n - 1)}

\* C1: every run of N >= 1 entries with equal class_name, week_code, week_day,
\* room_number and teacher at consecutive slots s .. s+N-1 of the input is, in
\* the returned list, exactly one entry at slot s with duration N, whatever
\* else the input holds.
C1_RunMergedToOne ==
    pc = "merge_done" =>
        \A e \in Range(merge_input) : \A s \in 0..MaxSlot : \A n \in 1..(MaxSlot + 1) :
            IsInputRun(e, s, n) =>
                /\ Cardinality(OutputOfRun(e, s, n)) = 1
                /\ \A k \in OutputOfRun(e, s, n) :
                      /\ class_list[k].slot_number = s
                      /\ class_list[k].duration = n

\* C2: in the returned list no two distinct entries share the identity key and
\* no two distinct entries, at any two positions, are merge-adjacent.
C2_NoDuplicateNoAdjacent ==
    pc = "merge_done" =>
        \A j, k \in 1..Len(class_list) :
            j # k => /\ ~EntryEq(class_list[j], class_list[k])
                     /\ ~is_aligned_class(class_list[j], class_list[k])

\* C3: whenever the merge deletes an entry and increments the duration of
\* another, the deleted entry is the right neighbour of the incremented one,
\* the two agree on class_name, week_code, week_day, room_number and teacher,
\* and their slot numbers differ by exactly 1.
C3_OnlyAlignedMerged ==
    [][Len(class_list') < Len(class_list) =>
          LET left == class_list[i + 1]
              right == class_list[i + 2]
          IN /\ class_list' =
                    RemoveAt([class_list EXCEPT ![i + 1].duration = @ + 1], i + 2)
             /\ left.class_name = right.class_name
             /\ left.week_code = right.week_code
             /\ left.week_day = right.week_day
             /\ left.room_number = right.room_number
             /\ left.teacher = right.teacher
             /\ (left.slot_number - right.slot_number) \in {-1, 1}]_vars

\* a merge happened next to an entry that differs only in the teacher
C3_Witness ==
    /\ pc = "merge_done"
    /\ \E j, k \in 1..Len(class_list) :
          /\ class_list[j].duration = 2
          /\ class_list[k].duration = 1
          /\ class_list[k].teacher # class_list[j].teacher
          /\ is_aligned_class_no_teacher(class_list[j], class_list[k])

\* C9: with every input entry of duration 1, at every iteration of the merge
\* loop each entry's duration is 1 plus the number of entries deleted into it
\* and the durations of the current list sum to the length of the input.
C9_DurationCountsAbsorbed ==
    /\ Len(absorbed) = Len(class_list)
    /\ \A k \in 1..Len(class_list) : class_list[k].duration = 1 + absorbed[k]
    /\ SumDuration(class_list) = Len(merge_input)

\* the loop has merged into one entry and kept another
C9_Witness ==
    /\ pc = "merge_loop"
    /\ Len(merge_input) = 3
    /\ Len(class_list) = 2
    /\ \E k \in 1..Len(class_list) : class_list[k].duration = 2

\* the list with its entries in the order p, a permutation of its indices
Permuted(list, p) == [k \in 1..Len(list) |-> list[p[k]]]

\* how many times the entry e occurs in the list
Occurrences(list, e) == Cardinality({k \in 1..Len(list) : list[k] = e})

\* the two lists hold the same multiset of entries, all fields compared
SameMultiset(a, b) ==
    /\ Len(a) = Len(b)
    /\ \A e \in Range(a) \cup Range(b) : Occurrences(a, e) = Occurrences(b, e)

\* C12: the result of merge_list_of_classes does not depend on the order of
\* its input: for every permutation of the input list, the list returned for
\* the permuted input holds the same multiset of (class_name, week_code,
\* week_day, room_number, slot_number, teacher, duration) as the list
\* returned for the input, also when entries share the identity key and
\* differ in teacher.
C12_OrderIndependent ==
    pc = "merge_done" =>
        \A p \in Permutations(1..Len(merge_input)) :
            SameMultiset(class_list, merge_list_of_classes(Permuted(merge_input, p)))

----------------------------------------------------------------------------
(* create_ics_file as a process: one step per loop iteration *)

WeekCodes == 0..3
WeekDays == 0..6
HourDurations == {40, 45}
ShortRecreations == {5, 10}
LongRecreations == {20, 40}

\* seven consecutive semester starts, Monday 02-02-2026 to Sunday 08-02-2026
StartDates == {Strftime(ToOrdinal(2026, 2, d)) : d \in 2..8}

IcsEntries ==
    {[ScheduleEntry(NameA, wc, Room1, wd, s, Teacher1) EXCEPT !.duration = d] :
        wc \in WeekCodes, wd \in WeekDays, s \in 0..MaxSlot, d \in 1..MaxDuration}

\* the last period a merged entry covers, as an entry of its own
LastPeriodAlone(entry) ==
    [entry EXCEPT !.slot_number = entry.slot_number + entry.duration - 1,
                  !.duration = 1]

IcsSchedules ==
    {<<>>} \cup {<<e>> : e \in IcsEntries}
           \cup {<<e, LastPeriodAlone(e)>> : e \in IcsEntries}

IcsInit ==
    /\ pc = "ics_call"
    /\ \E L \in HourDurations, S \in ShortRecreations, B \in LongRecreations,
          D \in StartDates :
          config = [DEFAULT_CONFIG EXCEPT !.academic_hour_duration = L,
                                          !.short_recreation_duration = S,
                                          !.long_recreation_duration = B,
                                          !.semester_starts_at = D]
    /\ schedule \in IcsSchedules
    /\ start_date = None
    /\ first_day_of_semester = None
    /\ cal = <<>>
    /\ ics_file = NoFile
    /\ MergeIdle
    /\ SemIdle
    /\ NameIdle
    /\ MainIdle

\* lines 355-375
IcsBegin ==
    /\ pc = "ics_call"
    /\ start_date' = Strptime(config.semester_starts_at)
    /\ first_day_of_semester' = Weekday(start_date')
    /\ cal' = <<>>
    /\ pc' = "ics_loop"
    /\ UNCHANGED <<mergeVars, config, schedule, ics_file, semVars, nameVars, mainVars>>

\* lines 378-447: the next entry of the schedule
IcsAddEvent ==
    /\ pc = "ics_loop"
    /\ Len(cal) < Len(schedule)
    /\ cal' = Append(cal, IcsEvent(schedule[Len(cal) + 1], config, start_date,
                                   first_day_of_semester))
    /\ UNCHANGED <<pc, mergeVars, config, schedule, start_date, first_day_of_semester,
                   ics_file, semVars, nameVars, mainVars>>

\* lines 450-451
IcsWrite ==
    /\ pc = "ics_loop"
    /\ Len(cal) = Len(schedule)
    /\ ics_file' = [written |-> TRUE, events |-> cal]
    /\ pc' = "ics_done"
    /\ UNCHANGED <<mergeVars, config, schedule, start_date, first_day_of_semester, cal,
                   semVars, nameVars, mainVars>>

IcsNext == IcsBegin \/ IcsAddEvent \/ IcsWrite

SpecIcs == IcsInit /\ [][IcsNext]_vars

----------------------------------------------------------------------------
(* Claims about create_ics_file *)

\* C5: the start time of every event is 09:00 on its first-occurrence date
\* plus slot_number * (2*L + S) minutes, plus (B - S) minutes exactly when
\* slot_number >= 2, for every L, S and B of the configuration.
C5_StartTimeFormula ==
    \A k \in 1..Len(cal) :
        LET e == schedule[k]
            L == config.academic_hour_duration
            S == config.short_recreation_duration
            B == config.long_recreation_duration
        IN cal[k].dtstart =
               cal[k].first_class_date * MinutesPerDay + 9 * 60
                   + e.slot_number * (2 * L + S)
                   + (IF e.slot_number >= 2 THEN B - S ELSE 0)

\* C6: with sw the weekday of the semester start, the first-occurrence date of
\* an entry is start + (7*week_code + week_day - sw) days, and exactly 28 days
\* later than that when week_code = 0 and week_day < sw.
C6_FirstOccurrenceDate ==
    \A k \in 1..Len(cal) :
        LET e == schedule[k]
            start == Strptime(config.semester_starts_at)
            sw == Weekday(start)
            plain == start + (7 * e.week_code + e.week_day - sw)
        IN /\ sw \in 0..6
           /\ cal[k].first_class_date =
                  IF e.week_code = 0 /\ e.week_day < sw THEN plain + 28 ELSE plain

\* an entry of week 0 whose weekday precedes the start's weekday was placed
C6_Witness ==
    /\ pc = "ics_done"
    /\ ics_file.written
    /\ \E k \in 1..Len(ics_file.events) :
          /\ schedule[k].week_code = 0
          /\ schedule[k].week_day < first_day_of_semester
          /\ ics_file.events[k].first_class_date = start_date + 28 + schedule[k].week_day
                                               - first_day_of_semester

\* C10: the end time of a merged entry of duration d at slot s equals the end
\* time of its last period, slot s + d - 1, placed alone with duration 1.
C10_EndIsEndOfLastPeriod ==
    \A j, k \in 1..Len(cal) :
        schedule[k] = LastPeriodAlone(schedule[j]) => cal[j].dtend = cal[k].dtend

\* C11: whatever the weekday of the semester start, the first-occurrence
\* date of every placed entry (week_code in 0..3, week_day in 0..6) is not
\* earlier than the semester start date and at most 27 days after it.
C11_FirstDateWithinFourWeeks ==
    \A k \in 1..Len(cal) :
        /\ schedule[k].week_code \in 0..3
        /\ schedule[k].week_day \in 0..6
        /\ cal[k].first_class_date >= Strptime(config.semester_starts_at)
        /\ cal[k].first_class_date <= Strptime(config.semester_starts_at) + 27

\* the semester starts on a Sunday and an entry of week 0 on a Monday was
\* placed: the case in which week_day - first_day_of_semester is lowest
C11_Witness ==
    /\ pc = "ics_done"
    /\ first_day_of_semester = 6
    /\ \E k \in 1..Len(cal) :
          /\ schedule[k].week_code = 0
          /\ schedule[k].week_day = 0
          /\ cal[k].first_class_date = start_date + 22

----------------------------------------------------------------------------
(* calculate_semester_start as main() uses it: the configuration has no     *)
(* semester_starts_at and the feed supplies the semester label              *)

Years == MinYear..MaxYear

\* "<Adjective> semestr Y1/Y2"
SemesterLabel(adj, y1, y2) ==
    adj \o SemesterWord \o Digits(y1, 4) \o <<47>> \o Digits(y2, 4)

SemInit ==
    /\ pc = "sem_call"
    /\ config = [DEFAULT_CONFIG EXCEPT !.semester_starts_at = NoneStr]
    /\ \E adj \in {Autumn, Spring, Summer}, y1 \in Years, y2 \in Years :
          semester = SemesterLabel(adj, y1, y2)
    /\ MergeIdle
    /\ IcsIdle
    /\ NameIdle
    /\ MainIdle

\* lines 325-349 and 494: the feed answers
SemCalculate ==
    /\ pc = "sem_call"
    /\ config' = [config EXCEPT !.semester_starts_at = calculate_semester_start(semester)]
    /\ pc' = "sem_done"
    /\ UNCHANGED <<mergeVars, icsVars, semVars, nameVars, mainVars>>

\* lines 325-332: _fetch_json raises, nothing is assigned
SemFetchRaises ==
    /\ pc = "sem_call"
    /\ pc' = "sem_raised"
    /\ UNCHANGED <<config, mergeVars, icsVars, semVars, nameVars, mainVars>>

SemNext == SemCalculate \/ SemFetchRaises

SpecSemester == SemInit /\ [][SemNext]_vars

----------------------------------------------------------------------------
(* Claim about calculate_semester_start *)

\* the reference rule, stated on the calendar
FirstMondayAfter(o) == CHOOSE x \in (o + 1)..(o + 7) : Weekday(x) = 0

SecondMondayOfFebruary(y) ==
    CHOOSE o \in ToOrdinal(y, 2, 1)..ToOrdinal(y, 2, 28) :
        /\ Weekday(o) = 0
        /\ Cardinality({x \in ToOrdinal(y, 2, 1)..o : Weekday(x) = 0}) = 2

ReferenceStart(adj, y1, y2) ==
    IF adj = Autumn
    THEN IF Weekday(ToOrdinal(y1, 9, 1)) \in 0..4
         THEN ToOrdinal(y1, 9, 1)
         ELSE FirstMondayAfter(ToOrdinal(y1, 9, 1))
    ELSE SecondMondayOfFebruary(y2)

\* C4: for every label "<Adjective> semestr Y1/Y2" the inferred start is
\* September 1 of Y1 (the first Monday after it when it is a Saturday or a
\* Sunday) if the label starts with the autumn adjective, and the second
\* Monday of February of Y2 otherwise; 2025/2026 autumn is 01-09-2025,
\* 2024/2025 autumn is 02-09-2024, 2025/2026 spring is 09-02-2026.
C4_SemesterStartRule ==
    pc = "sem_done" =>
        /\ \A adj \in {Autumn, Spring, Summer}, y1 \in Years, y2 \in Years :
              semester = SemesterLabel(adj, y1, y2) =>
                  LET ref == FromOrdinal(ReferenceStart(adj, y1, y2))
                  IN config.semester_starts_at =
                         Digits(ref.day, 2) \o <<45>> \o Digits(ref.month, 2)
                             \o <<45>> \o Digits(ref.year, 4)
        /\ semester = SemesterLabel(Autumn, 2025, 2026) =>
              config.semester_starts_at = <<48, 49, 45, 48, 57, 45, 50, 48, 50, 53>>
        /\ semester = SemesterLabel(Autumn, 2024, 2025) =>
              config.semester_starts_at = <<48, 50, 45, 48, 57, 45, 50, 48, 50, 52>>
        /\ semester = SemesterLabel(Spring, 2025, 2026) =>
              config.semester_starts_at = <<48, 57, 45, 48, 50, 45, 50, 48, 50, 54>>

\* an autumn label whose September 1 is a Saturday (2018) was moved to the Monday
C4_Witness ==
    /\ pc = "sem_done"
    /\ semester = SemesterLabel(Autumn, 2018, 2019)
    /\ config.semester_starts_at = <<48, 51, 45, 48, 57, 45, 50, 48, 49, 56>>

----------------------------------------------------------------------------
(* get_class_name on titles and alias dictionaries over a small alphabet *)

Strings(alphabet, n) == UNION {[1..m -> alphabet] : m \in 0..n}

Titles == Strings({97, 98, 32, 91}, MaxTitle)          \* a, b, space, [

AliasKeys == Strings({97, 98}, MaxKey) \ {<<>>}

Aliases == {<<>>, <<88>>, <<89>>}                      \* "", "X", "Y"

\* dictionaries of at most two entries
AliasDicts ==
    {<<>>} \cup {<< <<k, a>> >> : k \in AliasKeys, a \in Aliases}
           \cup UNION {{<< <<k1, a1>>, <<k2, a2>> >> :
                           k2 \in AliasKeys \ {k1}, a1 \in Aliases, a2 \in Aliases} :
                        k1 \in AliasKeys}

NameInit ==
    /\ pc = "name_call"
    /\ name \in Titles
    /\ \E d \in AliasDicts : config = [DEFAULT_CONFIG EXCEPT !.class_names_cast = d]
    /\ long_name = None
    /\ class_type = None
    /\ res_name = None
    /\ MergeIdle
    /\ IcsIdle
    /\ SemIdle
    /\ MainIdle

\* lines 174-191
NameReturn ==
    /\ pc = "name_call"
    /\ LET r == get_class_name(name, config.class_names_cast)
       IN /\ long_name' = r.long_name
          /\ class_type' = r.class_type
          /\ res_name' = r.res_name
    /\ pc' = "name_done"
    /\ UNCHANGED <<name, config, mergeVars, icsVars, semVars, mainVars>>

NameNext == NameReturn

SpecName == NameInit /\ [][NameNext]_vars

----------------------------------------------------------------------------
(* Claim about get_class_name *)

\* the entries of the dictionary whose key occurs in the bare title
MatchingEntries ==
    {k \in 1..Len(config.class_names_cast) :
        Contains(config.class_names_cast[k][1], long_name)}

\* C8: the base name is the alias of the longest key that is a substring of
\* the bare title (so of two keys that both occur, the longer wins), and the
\* bare title itself when no key occurs in it.
C8_LongestKeyWins ==
    pc = "name_done" =>
        LET cast == config.class_names_cast
        IN IF MatchingEntries = {}
           THEN res_name = long_name \o class_type
           ELSE \E k \in MatchingEntries :
                   /\ \A j \in MatchingEntries : Len(cast[j][1]) <= Len(cast[k][1])
                   /\ res_name = cast[k][2] \o class_type

----------------------------------------------------------------------------
(* merge_dicts, the two create_list_of_classes_* functions, base_class_name *)

\* the only dict-valued key of DEFAULT_CONFIG
DictKeys == {"class_names_cast"}

\* merge_dicts on two dicts of strings: an overridden key keeps its place, a new key is appended
RECURSIVE MergeCast(_, _)
MergeCast(default, override) ==
    IF override = <<>> THEN default
    ELSE LET k == override[1][1]
             v == override[1][2]
             at == {j \in 1..Len(default) : default[j][1] = k}
             merged == IF at = {} THEN Append(default, <<k, v>>)
                       ELSE [j \in 1..Len(default) |->
                                IF j \in at THEN <<k, v>> ELSE default[j]]
         IN MergeCast(merged, Tail(override))

\* lines 86-93
merge_dicts(default, override) ==
    [k \in (DOMAIN default) \cup (DOMAIN override) |->
        IF k \notin DOMAIN override THEN default[k]
        ELSE IF k \in DictKeys /\ k \in DOMAIN default
             THEN MergeCast(default[k], override[k])
             ELSE override[k]]

\* whether building the entry of a raw record raises KeyError
RecordComplete(rec) ==
    /\ "Class" \in DOMAIN rec
    /\ "Name" \in DOMAIN rec.Class
    /\ "TeacherFull" \in DOMAIN rec.Class
    /\ "DayNumber" \in DOMAIN rec
    /\ "Room" \in DOMAIN rec
    /\ "Name" \in DOMAIN rec.Room
    /\ "Day" \in DOMAIN rec
    /\ "Time" \in DOMAIN rec
    /\ "Code" \in DOMAIN rec.Time

\* lines 221-230: the entry of a record in educator mode
EducatorEntry(rec, group, cfg) ==
    ScheduleEntry(get_class_name(rec.Class.Name, cfg.class_names_cast).res_name
                      \o <<32>> \o group,
                  rec.DayNumber, rec.Room.Name, rec.Day - 1, rec.Time.Code - 1,
                  rec.Class.TeacherFull)

\* lines 271-278: the entry of a record in student mode
StudentEntry(rec, cfg) ==
    ScheduleEntry(get_class_name(rec.Class.Name, cfg.class_names_cast).res_name,
                  rec.DayNumber, rec.Room.Name, rec.Day - 1, rec.Time.Code - 1,
                  rec.Class.TeacherFull)

\* lines 218-231: the records of one group; a missing key raises KeyError
RECURSIVE ScanEducator(_, _, _, _)
ScanEducator(records, group, cfg, acc) ==
    IF records = <<>> THEN [raised |-> FALSE, entries |-> acc]
    ELSE LET rec == records[1]
         IN IF ~("Class" \in DOMAIN rec /\ "TeacherFull" \in DOMAIN rec.Class)
            THEN [raised |-> TRUE, entries |-> acc]
            ELSE IF rec.Class.TeacherFull = cfg.educator
                 THEN IF ~RecordComplete(rec) THEN [raised |-> TRUE, entries |-> acc]
                      ELSE ScanEducator(Tail(records), group, cfg,
                                        Append(acc, EducatorEntry(rec, group, cfg)))
                 ELSE ScanEducator(Tail(records), group, cfg, acc)

\* lines 268-282: a record with a missing key is skipped
RECURSIVE ScanStudent(_, _, _)
ScanStudent(records, cfg, acc) ==
    IF records = <<>> THEN acc
    ELSE IF RecordComplete(records[1])
         THEN ScanStudent(Tail(records), cfg, Append(acc, StudentEntry(records[1], cfg)))
         ELSE ScanStudent(Tail(records), cfg, acc)

\* str.strip(), of spaces
RECURSIVE Strip(_)
Strip(str) ==
    IF str = <<>> THEN str
    ELSE IF str[1] = 32 THEN Strip(Tail(str))
    ELSE IF str[Len(str)] = 32 THEN Strip(SubSeq(str, 1, Len(str) - 1))
    ELSE str

\* the character class of line 458: Cyrillic capitals, A-Z, "-", 0-9
IsGroupChar(c) ==
    \/ c \in 1040..1071
    \/ c \in 65..90
    \/ c = 45
    \/ c \in 48..57

\* re.sub(r"\s+[...]{3,}$", "", str): the trailing run of at least three group
\* characters and the spaces before it, when there is at least one space
StripGroupSuffix(str) ==
    LET run == CHOOSE n \in 0..Len(str) :
                   /\ \A k \in (Len(str) - n + 1)..Len(str) : IsGroupChar(str[k])
                   /\ (n < Len(str) => ~IsGroupChar(str[Len(str) - n]))
        rest == SubSeq(str, 1, Len(str) - run)
        spaces == CHOOSE n \in 0..Len(rest) :
                      /\ \A k \in (Len(rest) - n + 1)..Len(rest) : rest[k] = 32
                      /\ (n < Len(rest) => rest[Len(rest) - n] # 32)
    IN IF run >= 3 /\ spaces >= 1 THEN SubSeq(rest, 1, Len(rest) - spaces) ELSE str

\* lines 453-458
base_class_name(str) ==
    LET p == FindSub(str, <<32, 91>>, 1)
        head == IF p = 0 THEN str ELSE SubSeq(str, 1, p - 1)
    IN Strip(StripGroupSuffix(head))

\* lines 511-517
Excluded(cfg) ==
    cfg.excluded_disciplines
        \cup {cfg.class_names_cast[k][2] :
                 k \in {j \in 1..Len(cfg.class_names_cast) :
                           cfg.class_names_cast[j][1] \in cfg.excluded_disciplines}}

\* lines 519-523
RECURSIVE FilterExcluded(_, _)
FilterExcluded(list, excluded) ==
    IF list = <<>> THEN <<>>
    ELSE IF base_class_name(list[1].class_name) \notin excluded
         THEN <<list[1]>> \o FilterExcluded(Tail(list), excluded)
         ELSE FilterExcluded(Tail(list), excluded)

----------------------------------------------------------------------------
(* main(): command lines, configuration files and feeds of the runs *)

\* the answer of the server when _fetch_json raises for the request
FetchError == [ok |-> FALSE, Data |-> <<>>]

Fetched(records) == [ok |-> TRUE, Data |-> records]

\* the semester label when the request for it raises
NoLabel == <<-2>>

AliasX == <<88>>                \* "X"

\* a --config file that cannot be read or parsed
Unreadable == "unreadable.yaml"

\* yaml.safe_load of the --config files
YamlFile(path) ==
    CASE path = "infer_start.yaml" -> [semester_starts_at |-> NoneStr]
      [] path = "no_groups.yaml" -> [groups |-> <<>>]
      [] path = "blank_group.yaml" -> [mode |-> "student", group |-> <<32>>]
      [] path = "student_cast.yaml" ->
             [mode |-> "student", semester_starts_at |-> NoneStr,
              class_names_cast |-> << <<NameA, AliasX>> >>]

\* parse_args(): mode and config are None when absent, group is NoneStr
ArgsChoices ==
    {[mode |-> None, config |-> None, group |-> NoneStr],
     [mode |-> "student", config |-> None, group |-> NoneStr],
     [mode |-> "student", config |-> None, group |-> Group34],
     [mode |-> None, config |-> Unreadable, group |-> NoneStr],
     [mode |-> None, config |-> "infer_start.yaml", group |-> NoneStr],
     [mode |-> None, config |-> "no_groups.yaml", group |-> NoneStr],
     [mode |-> None, config |-> "blank_group.yaml", group |-> NoneStr],
     [mode |-> None, config |-> "student_cast.yaml", group |-> NoneStr],
     [mode |-> "educator", config |-> "student_cast.yaml", group |-> NoneStr]}

\* lines 479-491: the configuration main() works with
LoadedConfig(a) ==
    LET merged == IF a.config = None THEN DEFAULT_CONFIG
                  ELSE merge_dicts(DEFAULT_CONFIG, YamlFile(a.config))
    IN IF a.mode # None THEN [merged EXCEPT !.mode = a.mode] ELSE merged

\* lines 506-507
StudentGroup(a, cfg) ==
    IF a.group # NoneStr /\ a.group # <<>> THEN a.group ELSE cfg.group

RawRecord(class_name, teacher, code) ==
    [Class |-> [Name |-> class_name, TeacherFull |-> teacher],
     DayNumber |-> 0, Room |-> [Name |-> Room1], Day |-> 1, Time |-> [Code |-> code]]

RawRecords ==
    {RawRecord(NameA, Educator0, 1),
     RawRecord(NameA, Educator0, 2),
     RawRecord(NameA, Teacher2, 1),
     RawRecord(Practice, Educator0, 1),
     [Class |-> [Name |-> NameA], DayNumber |-> 0, Room |-> [Name |-> Room1],
      Day |-> 1, Time |-> [Code |-> 1]]}

FeedChoices == {FetchError} \cup {Fetched(r) : r \in SeqsUpTo(RawRecords, MaxFeed)}

\* the groups whose feed the run asks for
GroupsAsked(a) ==
    IF a.config = Unreadable THEN {}
    ELSE LET cfg == LoadedConfig(a)
         IN IF cfg.mode = "educator" THEN Range(cfg.groups)
            ELSE IF Strip(StudentGroup(a, cfg)) = <<>> THEN {}
            ELSE {Strip(StudentGroup(a, cfg))}

MainInit ==
    /\ pc = "main_start"
    /\ args \in ArgsChoices
    /\ config = DEFAULT_CONFIG
    /\ feed \in [GroupsAsked(args) -> FeedChoices]
    /\ semester \in IF args.config # Unreadable
                       /\ LoadedConfig(args).semester_starts_at = NoneStr
                    THEN {SemesterLabel(Autumn, 2024, 2025), NoLabel}
                    ELSE {SemesterLabel(Autumn, 2024, 2025)}
    /\ unmerged = <<>>
    /\ fetched = 0
    /\ calls = <<>>
    /\ exit_status = Running
    /\ MergeIdle
    /\ IcsIdle
    /\ NameIdle

Exit(status) ==
    /\ pc' = "main_exit"
    /\ exit_status' = status

\* lines 479-491
MainLoadConfig ==
    /\ pc = "main_start"
    /\ args.config # Unreadable
    /\ config' = LoadedConfig(args)
    /\ pc' = "main_semester"
    /\ calls' = Append(calls, "config")
    /\ UNCHANGED <<args, feed, unmerged, fetched, exit_status, mergeVars, icsVars,
                   semVars, nameVars>>

\* lines 485-487
MainConfigUnreadable ==
    /\ pc = "main_start"
    /\ args.config = Unreadable
    /\ Exit(1)
    /\ UNCHANGED <<config, args, feed, unmerged, fetched, calls, mergeVars, icsVars,
                   semVars, nameVars>>

\* line 493, a start date is configured
MainSemesterGiven ==
    /\ pc = "main_semester"
    /\ config.semester_starts_at # NoneStr
    /\ pc' = "main_create"
    /\ UNCHANGED <<config, mainVars, mergeVars, icsVars, semVars, nameVars>>

\* lines 493-499
MainSemesterInferred ==
    /\ pc = "main_semester"
    /\ config.semester_starts_at = NoneStr
    /\ semester # NoLabel
    /\ config' = [config EXCEPT !.semester_starts_at = calculate_semester_start(semester)]
    /\ pc' = "main_create"
    /\ calls' = Append(calls, "calculate_semester_start")
    /\ UNCHANGED <<args, feed, unmerged, fetched, exit_status, mergeVars, icsVars,
                   semVars, nameVars>>

\* line 494, _fetch_json raises: the exception ends the process with status 1
MainSemesterRaises ==
    /\ pc = "main_semester"
    /\ config.semester_starts_at = NoneStr
    /\ semester = NoLabel
    /\ Exit(1)
    /\ UNCHANGED <<config, args, feed, unmerged, fetched, calls, mergeVars, icsVars,
                   semVars, nameVars>>

\* line 232
EducatorHasNoClasses(list) == list = <<>>

\* lines 208-231, one group: fetched and scanned
MainEducatorGroup ==
    /\ pc = "main_create"
    /\ config.mode = "educator"
    /\ fetched < Len(config.groups)
    /\ LET group == config.groups[fetched + 1]
       IN /\ feed[group].ok
          /\ LET scan == ScanEducator(feed[group].Data, group, config, unmerged)
             IN /\ ~scan.raised
                /\ unmerged' = scan.entries
    /\ fetched' = fetched + 1
    /\ UNCHANGED <<pc, config, args, feed, calls, exit_status, mergeVars, icsVars,
                   semVars, nameVars>>

\* lines 208-231, one group: _fetch_json or a missing key raises
MainEducatorRaises ==
    /\ pc = "main_create"
    /\ config.mode = "educator"
    /\ fetched < Len(config.groups)
    /\ LET group == config.groups[fetched + 1]
       IN \/ ~feed[group].ok
          \/ /\ feed[group].ok
             /\ ScanEducator(feed[group].Data, group, config, unmerged).raised
    /\ Exit(1)
    /\ UNCHANGED <<config, args, feed, unmerged, fetched, calls, mergeVars, icsVars,
                   semVars, nameVars>>

\* lines 232-234
MainEducatorEmpty ==
    /\ pc = "main_create"
    /\ config.mode = "educator"
    /\ fetched = Len(config.groups)
    /\ EducatorHasNoClasses(unmerged)
    /\ Exit(2)
    /\ calls' = Append(calls, "create_list_of_classes_for_educator")
    /\ UNCHANGED <<config, args, feed, unmerged, fetched, mergeVars, icsVars,
                   semVars, nameVars>>

\* line 235
MainEducatorReturn ==
    /\ pc = "main_create"
    /\ config.mode = "educator"
    /\ fetched = Len(config.groups)
    /\ ~EducatorHasNoClasses(unmerged)
    /\ pc' = "main_filter"
    /\ calls' = Append(calls, "create_list_of_classes_for_educator")
    /\ UNCHANGED <<config, args, feed, unmerged, fetched, exit_status, mergeVars,
                   icsVars, semVars, nameVars>>

\* lines 506-508 and 242-284
MainStudent ==
    /\ pc = "main_create"
    /\ config.mode # "educator"
    /\ LET group == Strip(StudentGroup(args, config))
       IN /\ group # <<>>
          /\ feed[group].ok
          /\ unmerged' = ScanStudent(feed[group].Data, config, <<>>)
    /\ config' = [config EXCEPT !.group = StudentGroup(args, config)]
    /\ pc' = "main_filter"
    /\ calls' = Append(calls, "create_list_of_classes_for_student")
    /\ UNCHANGED <<args, feed, fetched, exit_status, mergeVars, icsVars, semVars,
                   nameVars>>

\* lines 245-247 and 264: ValueError for an empty group, or _fetch_json raises
MainStudentRaises ==
    /\ pc = "main_create"
    /\ config.mode # "educator"
    /\ LET group == Strip(StudentGroup(args, config))
       IN \/ group = <<>>
          \/ /\ group # <<>>
             /\ ~feed[group].ok
    /\ config' = [config EXCEPT !.group = StudentGroup(args, config)]
    /\ Exit(1)
    /\ UNCHANGED <<args, feed, unmerged, fetched, calls, mergeVars, icsVars, semVars,
                   nameVars>>

\* lines 511-523
MainFilter ==
    /\ pc = "main_filter"
    /\ unmerged' = FilterExcluded(unmerged, Excluded(config))
    /\ pc' = "main_merge"
    /\ calls' = Append(calls, "filter")
    /\ UNCHANGED <<config, args, feed, fetched, exit_status, mergeVars, icsVars,
                   semVars, nameVars>>

\* line 525
MainMerge ==
    /\ pc = "main_merge"
    /\ merge_input' = unmerged
    /\ class_list' = merge_list_of_classes(unmerged)
    /\ pc' = "main_ics"
    /\ calls' = Append(calls, "merge_list_of_classes")
    /\ UNCHANGED <<config, args, feed, unmerged, fetched, exit_status, i, list_len,
                   absorbed, icsVars, semVars, nameVars>>

\* line 526
MainCreateIcs ==
    /\ pc = "main_ics"
    /\ schedule' = class_list
    /\ start_date' = Strptime(config.semester_starts_at)
    /\ first_day_of_semester' = Weekday(start_date')
    /\ cal' = create_ics_file(class_list, config)
    /\ ics_file' = [written |-> TRUE, events |-> cal']
    /\ pc' = "main_done"
    /\ exit_status' = 0
    /\ calls' = Append(calls, "create_ics_file")
    /\ UNCHANGED <<config, args, feed, unmerged, fetched, mergeVars, semVars, nameVars>>

MainNext ==
    \/ MainLoadConfig
    \/ MainConfigUnreadable
    \/ MainSemesterGiven
    \/ MainSemesterInferred
    \/ MainSemesterRaises
    \/ MainEducatorGroup
    \/ MainEducatorRaises
    \/ MainEducatorEmpty
    \/ MainEducatorReturn
    \/ MainStudent
    \/ MainStudentRaises
    \/ MainFilter
    \/ MainMerge
    \/ MainCreateIcs

SpecMain == MainInit /\ [][MainNext]_vars

----------------------------------------------------------------------------
(* Claim about the educator mode of main() *)

\* a record of a feed the run asked for names the configured educator
SomeRecordMatches ==
    \E g \in DOMAIN feed :
        /\ feed[g].ok
        /\ \E k \in 1..Len(feed[g].Data) :
              /\ "Class" \in DOMAIN feed[g].Data[k]
              /\ "TeacherFull" \in DOMAIN feed[g].Data[k].Class
              /\ feed[g].Data[k].Class.TeacherFull = config.educator

\* every feed the run asked for was delivered by the server
AllFeedsDelivered == \A g \in DOMAIN feed : feed[g].ok

\* C7: in educator mode the run gets to the filter, the merge and the writing
\* of the calendar only if some raw record's teacher is the configured
\* educator; and for every set of delivered group feeds of which no record
\* matches, the run that got to the creation of the list has ended with
\* status 2, with nothing filtered, merged or written.
C7_EducatorStopsWithoutMatch ==
    (pc # "main_start" /\ config.mode = "educator") =>
        /\ (\/ pc \in {"main_filter", "main_merge", "main_ics", "main_done"}
            \/ "filter" \in Range(calls)
            \/ "merge_list_of_classes" \in Range(calls)
            \/ ics_file.written) => SomeRecordMatches
        /\ (/\ pc \in {"main_exit", "main_done"}
            /\ "config" \in Range(calls)
            /\ config.semester_starts_at # NoneStr
            /\ AllFeedsDelivered
            /\ ~SomeRecordMatches) =>
              /\ exit_status = 2
              /\ "filter" \notin Range(calls)
              /\ "merge_list_of_classes" \notin Range(calls)
              /\ ~ics_file.written

====
